---------------------------- MODULE Spec2Model ----------------------------
(***************************************************************************)
(* rwmstatus: a status monitor for the dwm/rwm window manager.             *)
(*                                                                         *)
(* Two pieces of code are modelled.  src/src/main.rs is the binary: it     *)
(* opens the X display and then loops forever, reading temperatures, load  *)
(* averages, batteries and times and storing the formatted line as the     *)
(* name of the root window.  src/src/lib.rs is the library: the RwmStatus  *)
(* object enumerates the device paths once, in new(), and offers one       *)
(* aggregate readout per category.  main.rs does not call lib.rs; both     *)
(* carry their own readout functions, and the ones of main.rs are          *)
(* prefixed main_ here.                                                    *)
(*                                                                         *)
(* Text is a sequence of characters (one-character strings; "deg" is the   *)
(* degree sign U+00B0, "xFF" a byte that is not valid UTF-8, "NUL" the     *)
(* zero byte).  A file read is [ok, data]; a Result<T> is [ok, val, err].  *)
(***************************************************************************)
EXTENDS Integers, Sequences, FiniteSets, TLC

VARIABLES
    \* ---- src/src/main.rs: main() ----
    pc,           \* position of main(): start, temps, avgs, batts, times,
                  \* format, store, sleep, exited, panicked
    display,      \* the Display pointer: "unopened", "null" or "open"
    temps, avgs, batts, times,   \* the locals of one loop iteration
    status,       \* the CString handed to XStoreName
    stderr,       \* lines written with eprintln!
    exit_code,    \* -1 while running, else the status given to process::exit
    sink_calls,   \* number of XStoreName calls made so far (saturating)
    sink_ok,      \* whether the last XStoreName/XSync reached the X server
    did_read,     \* a readout has been performed
    \* ---- src/src/lib.rs: one RwmStatus object and its environment ----
    hwmon_dir, batt_dir,   \* the two base directories: [listable, entries]
    fs,           \* device path -> file name -> read outcome
    now,          \* the clock (see Clock)
    tz_arg,       \* the zones the caller passes to RwmStatus::new
    rs,           \* the RwmStatus value: [built, hw_mons, batts, tzs]
    op,           \* the last operation performed
    ret,          \* what it returned: [some, text]
    read_dir_calls,  \* number of read_dir() calls made so far
    \* ---- RwmStatus::get_paths, called on its own ----
    listing,      \* the order in which read_dir yielded the entries
    filtered,     \* what the filter stage let through
    paths,        \* the result
    prev_listing, prev_paths,   \* the same of the call before
    calls,        \* number of get_paths calls (saturating at 2)
    panicked      \* the map stage hit panic!("Unexpected file path")

mainVars == <<pc, display, temps, avgs, batts, times, status, stderr,
              exit_code, sink_calls, sink_ok, did_read>>
envVars == <<hwmon_dir, batt_dir, fs, now, tz_arg>>
libVars == <<rs, op, ret, read_dir_calls>>
enumVars == <<listing, filtered, paths, prev_listing, prev_paths, calls,
              panicked>>
vars == <<mainVars, envVars, libVars, enumVars>>

---------------------------------------------------------------------------
(* Bounds of the model.                                                    *)

\* Devices of one category that can exist under a base directory.
MaxDev == 2
\* Capacities 0..MaxCap are written to the capacity files.
MaxCap == 3
\* Publish cycles counted before the counter saturates.
MaxCycles == 2
\* Zones given to RwmStatus::new.
MaxZones == 2
\* Entries of a directory whose listing order is permuted.
MaxEntries == 3

---------------------------------------------------------------------------
(* Text.                                                                   *)

Digits == <<"0", "1", "2", "3", "4", "5", "6", "7", "8", "9">>

DigitVal(c) == (CHOOSE i \in 1..10 : Digits[i] = c) - 1

IsDigit(c) == \E i \in 1..10 : Digits[i] = c

\* The characters of file names, in byte order ("xFF" is the byte 0xFF).
CharOrder == <<"0", "1", "2", "3", "4", "5", "6", "7", "8", "9",
               "A", "B", "C", "T", "a", "e", "h", "l", "m", "n", "o", "r",
               "t", "w", "xFF">>

Code(c) == CHOOSE i \in 1..Len(CharOrder) : CharOrder[i] = c

\* Unsigned decimal, as {} formats an integer.
RECURSIVE Dec(_)
Dec(n) == IF n < 10 THEN <<Digits[n + 1]>>
          ELSE Dec(n \div 10) \o <<Digits[(n % 10) + 1]>>

\* str::starts_with
StartsWith(s, p) == Len(s) >= Len(p) /\ SubSeq(s, 1, Len(p)) = p

IsSpace(c) == c \in {" ", "\n", "\t", "\r"}

\* str::trim
RECURSIVE TrimLeft(_)
TrimLeft(s) == IF s # <<>> /\ IsSpace(Head(s)) THEN TrimLeft(Tail(s)) ELSE s

RECURSIVE TrimRight(_)
TrimRight(s) == IF s # <<>> /\ IsSpace(s[Len(s)])
                THEN TrimRight(SubSeq(s, 1, Len(s) - 1)) ELSE s

Trim(s) == TrimRight(TrimLeft(s))

\* [T]::join for a sequence of texts.
RECURSIVE Join(_, _)
Join(ss, sep) == IF ss = <<>> THEN <<>>
                 ELSE IF Len(ss) = 1 THEN ss[1]
                 ELSE ss[1] \o sep \o Join(Tail(ss), sep)

\* The fields of a text between occurrences of the character c.
RECURSIVE Split(_, _)
Split(s, c) ==
    IF \A i \in 1..Len(s) : s[i] # c THEN <<s>>
    ELSE LET k == CHOOSE i \in 1..Len(s) :
                      s[i] = c /\ \A j \in 1..(i - 1) : s[j] # c
         IN <<SubSeq(s, 1, k - 1)>> \o Split(SubSeq(s, k + 1, Len(s)), c)

\* Results.
Ok(v) == [ok |-> TRUE, val |-> v, err |-> "none"]
ErrStr(e) == [ok |-> FALSE, val |-> <<>>, err |-> e]
ErrNum(e) == [ok |-> FALSE, val |-> 0, err |-> e]

\* A file that cannot be read, and one that holds the text s.
NoFile == [ok |-> FALSE, data |-> <<>>]
File(s) == [ok |-> TRUE, data |-> s]

\* Result::unwrap_or("")
UnwrapOrEmpty(r) == IF r.ok THEN r.val ELSE <<>>

---------------------------------------------------------------------------
(* Numbers.                                                                *)

\* The capacities and temperatures written to the files of the model are far
\* below 2^63, so the overflow error of str::parse is not reached.
RECURSIVE DigitsVal(_)
DigitsVal(s) == IF s = <<>> THEN 0
                ELSE 10 * DigitsVal(SubSeq(s, 1, Len(s) - 1))
                     + DigitVal(s[Len(s)])

AllDigits(s) == s # <<>> /\ \A i \in 1..Len(s) : IsDigit(s[i])

\* str::parse::<u64>: an optional '+', then digits; no '-'.
ParseU64(s) ==
    LET d == IF s # <<>> /\ Head(s) = "+" THEN Tail(s) ELSE s
    IN IF AllDigits(d) THEN Ok(DigitsVal(d)) ELSE ErrNum("ParseNum")

\* str::parse::<i64>: an optional sign, then digits.
ParseI64(s) ==
    LET neg == s # <<>> /\ Head(s) = "-"
        d == IF s # <<>> /\ Head(s) \in {"+", "-"} THEN Tail(s) ELSE s
    IN IF AllDigits(d)
       THEN Ok(IF neg THEN 0 - DigitsVal(d) ELSE DigitsVal(d))
       ELSE ErrNum("ParseNum")

\* str::parse::<f64>, for the decimal integers the files hold (every such
\* integer of the model is exact as an f64).
ParseF64(s) ==
    LET neg == s # <<>> /\ Head(s) = "-"
        d == IF s # <<>> /\ Head(s) \in {"+", "-"} THEN Tail(s) ELSE s
    IN IF AllDigits(d)
       THEN Ok(IF neg THEN 0 - DigitsVal(d) ELSE DigitsVal(d))
       ELSE ErrNum("ParseFloat")

\* i64 division: truncates toward zero.
DivTrunc(a, b) == IF a >= 0 THEN a \div b ELSE 0 - ((0 - a) \div b)

\* The integer nearest to num/den (num >= 0, den > 0), an exact tie going to
\* the even neighbour: what {:.0} prints for a float.
RoundHalfEven(num, den) ==
    LET q == num \div den
        r == num % den
    IN IF 2 * r > den \/ (2 * r = den /\ q % 2 = 1) THEN q + 1 ELSE q

\* Zero padding to a width of two, the sign counted in the width: {:02}.
Pad2(neg, digits) ==
    LET body == IF neg THEN <<"-">> \o digits ELSE digits
    IN IF Len(body) >= 2 THEN body ELSE <<"0">> \o body

---------------------------------------------------------------------------
(* The environment: files, load averages, time zones, the clock.           *)

\* std::fs::read_to_string(path.join(file)): a device directory that does
\* not exist has no readable file.
read_to_string(f, path, file) ==
    IF path \in DOMAIN f THEN f[path][file] ELSE NoFile

\* main.rs's read_file(base, filename): File::open, then read_to_string.
read_file(f, base, file) == read_to_string(f, base, file)

\* chrono_tz's table, as far as the model uses it: zone name -> offset from
\* UTC in minutes and abbreviation.
ZoneTable ==
    [name \in {"America/Buenos_Aires", "UTC", "Asia/Tokyo"} |->
        CASE name = "America/Buenos_Aires" ->
                 [off |-> 0 - 180, abbr |-> <<"-", "0", "3">>]
          [] name = "UTC" -> [off |-> 0, abbr |-> <<"U", "T", "C">>]
          [] name = "Asia/Tokyo" -> [off |-> 540, abbr |-> <<"J", "S", "T">>]]

\* str::parse::<chrono_tz::Tz>
ParseTz(tz_name) ==
    IF tz_name \in DOMAIN ZoneTable THEN [ok |-> TRUE, tz |-> tz_name]
    ELSE [ok |-> FALSE, tz |-> "UTC"]

\* Two digits, zero padded: %H, %M, %d, %W.
Two(n) == <<Digits[(n \div 10) + 1], Digits[(n % 10) + 1]>>

\* %H:%M of the instant t in the zone tz.  t.min is the minute of the UTC
\* day; the instants of the model lie between 09:00 and 14:59 UTC, where
\* every zone of the table is on the UTC date.
FmtHM(t, tz) ==
    LET m == (t.min + ZoneTable[tz].off) % 1440
    IN Two(m \div 60) \o <<":">> \o Two(m % 60)

\* "KW %W %a %d %b %H:%M %Z %Y" of the instant t in the zone tz.
FmtRich(t, tz) ==
    <<"K", "W", " ">> \o Two(t.week) \o <<" ">> \o t.wday \o <<" ">>
    \o Two(t.day) \o <<" ">> \o t.mon \o <<" ">> \o FmtHM(t, tz) \o <<" ">>
    \o ZoneTable[tz].abbr \o <<" ">> \o Dec(t.year)

\* DelayedFormat: the two format strings the code uses.
Format(t, tz, fmt) == IF fmt = "%H:%M" THEN FmtHM(t, tz) ELSE FmtRich(t, tz)

\* {:.2} of a load average given in thousandths.
Fmt2(th) ==
    LET h == RoundHalfEven(th, 10)
    IN Dec(h \div 100) \o <<".">> \o Two(h % 100)

---------------------------------------------------------------------------
(* src/src/lib.rs: the readout functions.                                  *)

Temp1Input == "temp1_input"

\* get_temp
get_temp(f, hwmon) ==
    LET r == read_to_string(f, hwmon, Temp1Input)
        v == ParseI64(Trim(r.data))
        q == DivTrunc(v.val, 1000)
    IN IF ~r.ok THEN ErrStr("Io")
       ELSE IF ~v.ok THEN ErrStr("ParseNum")
       ELSE Ok(Pad2(q < 0, Dec(IF q < 0 THEN 0 - q ELSE q)) \o <<"deg", "C">>)

\* get_load_avgs: la is what getloadavg gave, [rc, avgs].
get_load_avgs(la) ==
    IF la.rc < 0 THEN ErrStr("System")
    ELSE Ok(Fmt2(la.avgs[1]) \o <<" ">> \o Fmt2(la.avgs[2]) \o <<" ">>
            \o Fmt2(la.avgs[3]))

\* match &contents.trim()[..] of the status file
StatusChar(r) ==
    IF ~r.ok THEN "?"
    ELSE LET t == Trim(r.data)
         IN IF t = <<"F", "u", "l", "l">> THEN "F"
            ELSE IF t = <<"D", "i", "s", "c", "h", "a", "r", "g", "i", "n", "g">>
            THEN "-"
            ELSE IF t = <<"C", "h", "a", "r", "g", "i", "n", "g">> THEN "+"
            ELSE "?"

\* FmtPercent with the percentage cut to an integer (as u64) instead of
\* rounded.
FmtPercent_Truncated(c, f) ==
    IF f = 0 THEN (IF c = 0 THEN <<"N", "a", "N">> ELSE <<"i", "n", "f">>)
    ELSE Dec((100 * c) \div f)

\* format!("{:.0}", (c as f64) / (f as f64) * 100.0): a division by zero is
\* inf or NaN, not a panic.
FmtPercent(c, f) ==
    IF f = 0 THEN (IF c = 0 THEN <<"N", "a", "N">> ELSE <<"i", "n", "f">>)
    ELSE Dec(RoundHalfEven(100 * c, f))

\* read_to_string(a).or_else(|_| read_to_string(b))
ReadEither(f, batt, a, b) ==
    LET r == read_to_string(f, batt, a)
    IN IF r.ok THEN r ELSE read_to_string(f, batt, b)

\* get_batt
get_batt(f, batt) ==
    LET p == read_to_string(f, batt, "present")
        full == ReadEither(f, batt, "charge_full_design", "energy_full_design")
        desired_capacity == ParseU64(Trim(full.data))
        rem == ReadEither(f, batt, "charge_now", "energy_now")
        remaining_capacity == ParseU64(Trim(rem.data))
        st == StatusChar(read_to_string(f, batt, "status"))
    IN IF ~p.ok THEN ErrStr("Io")
       ELSE IF ~StartsWith(p.data, <<"1">>) THEN ErrStr("NotPresent")
       ELSE IF ~full.ok THEN ErrStr("Io")
       ELSE IF ~desired_capacity.ok THEN ErrStr("ParseNum")
       ELSE IF ~rem.ok THEN ErrStr("Io")
       ELSE IF ~remaining_capacity.ok THEN ErrStr("ParseNum")
       ELSE Ok(FmtPercent(remaining_capacity.val, desired_capacity.val)
               \o <<"%", st>>)

\* get_tz_time
get_tz_time(tz_name, fmt, t) ==
    LET tz == ParseTz(tz_name)
    IN IF ~tz.ok THEN ErrStr("ParseTz") ELSE Ok(Format(t, tz.tz, fmt))

\* get_local_time: t.local is the zone of the system.
get_local_time(fmt, t) == Format(t, t.local, fmt)

---------------------------------------------------------------------------
(* src/src/lib.rs: RwmStatus.                                              *)

\* A path is [base, name]: the base directory and the entry's file name.
\* An item of a directory listing is [ok, utf8, name]: ok = FALSE is an
\* Err(io::Error) yielded by the iterator, utf8 = FALSE a name that
\* OsStr::to_str cannot decode.
ErrItem == [ok |-> FALSE, utf8 |-> FALSE, name |-> <<>>]
Entry(n) == [ok |-> TRUE, utf8 |-> TRUE, name |-> n]
RawEntry(n) == [ok |-> TRUE, utf8 |-> FALSE, name |-> n]

\* Byte-wise lexicographic order of two names.
RECURSIVE LexLess(_, _)
LexLess(a, b) ==
    IF b = <<>> THEN FALSE
    ELSE IF a = <<>> THEN TRUE
    ELSE IF Head(a) = Head(b) THEN LexLess(Tail(a), Tail(b))
    ELSE Code(Head(a)) < Code(Head(b))

\* Ord for PathBuf: component by component; all paths of one call share the
\* base, so the file name decides.
PathLess(p, q) == p.base = q.base /\ LexLess(p.name, q.name)

\* Path::read_dir: order is the order in which the directory yields.
read_dir(d, order) ==
    IF d.listable THEN [ok |-> TRUE, iter |-> order]
    ELSE [ok |-> FALSE, iter |-> <<>>]

\* FilterKeeps with Err(_) => true: a failed item reaches the map stage.
FilterKeeps_ErrPasses(item, prefix) ==
    IF item.ok THEN (IF item.utf8 THEN StartsWith(item.name, prefix) ELSE FALSE)
    ELSE TRUE

\* The closure of dir.filter(...)
FilterKeeps(item, prefix) ==
    IF item.ok THEN (IF item.utf8 THEN StartsWith(item.name, prefix) ELSE FALSE)
    ELSE FALSE

RECURSIVE dir_filtered(_, _)
dir_filtered(iter, prefix) ==
    IF iter = <<>> THEN <<>>
    ELSE (IF FilterKeeps(Head(iter), prefix) THEN <<Head(iter)>> ELSE <<>>)
         \o dir_filtered(Tail(iter), prefix)

\* The closure of .map(...): an Err item panics.
MapPanics(flt) == \E i \in 1..Len(flt) : ~flt[i].ok

MapPaths(flt, base_path) ==
    [i \in 1..Len(flt) |-> [base |-> base_path, name |-> flt[i].name]]

\* paths.sort_unstable(): the paths are distinct, so the result is the one
\* ascending arrangement.
RECURSIVE Insert(_, _)
Insert(p, sorted) ==
    IF sorted = <<>> THEN <<p>>
    ELSE IF PathLess(p, Head(sorted)) THEN <<p>> \o sorted
    ELSE <<Head(sorted)>> \o Insert(p, Tail(sorted))

\* get_paths without the paths.sort_unstable() line.
sort_unstable_Skipped(ps) == ps

RECURSIVE sort_unstable(_)
sort_unstable(ps) ==
    IF ps = <<>> THEN <<>>
    ELSE Insert(Head(ps), sort_unstable(Tail(ps)))

\* RwmStatus::get_paths: [panic, filtered, paths].
get_paths(d, order, base_path, prefix) ==
    LET dir == read_dir(d, order)
        flt == dir_filtered(dir.iter, prefix)
    IN IF ~dir.ok THEN [panic |-> FALSE, filtered |-> <<>>, paths |-> <<>>]
       ELSE IF MapPanics(flt)
       THEN [panic |-> TRUE, filtered |-> flt, paths |-> <<>>]
       ELSE [panic |-> FALSE, filtered |-> flt,
             paths |-> sort_unstable(MapPaths(flt, base_path))]

None == [some |-> FALSE, text |-> <<>>]
Some(s) == [some |-> TRUE, text |-> s]

\* get_temperatures collecting into Result<Vec<String>>: one sensor that
\* fails blanks the whole category.
get_temperatures_AllOrNothing(f, self) ==
    IF self.hw_mons = <<>> THEN None
    ELSE IF \E i \in 1..Len(self.hw_mons) : ~get_temp(f, self.hw_mons[i]).ok
    THEN Some(<<>>)
    ELSE Some(Join([i \in 1..Len(self.hw_mons) |->
                       get_temp(f, self.hw_mons[i]).val],
                   <<"|">>))

\* RwmStatus::get_temperatures
get_temperatures(f, self) ==
    IF self.hw_mons = <<>> THEN None
    ELSE Some(Join([i \in 1..Len(self.hw_mons) |->
                       UnwrapOrEmpty(get_temp(f, self.hw_mons[i]))],
                   <<"|">>))

\* RwmStatus::get_load_avgs
rs_get_load_avgs(la) == UnwrapOrEmpty(get_load_avgs(la))

\* RwmStatus::get_batteries
get_batteries(f, self) ==
    IF self.batts = <<>> THEN None
    ELSE Some(Join([i \in 1..Len(self.batts) |->
                       UnwrapOrEmpty(get_batt(f, self.batts[i]))],
                   <<"|">>))

RichFmt == "KW %W %a %d %b %H:%M %Z %Y"

RECURSIVE KnownZones(_)
KnownZones(tzs) ==
    IF tzs = <<>> THEN <<>>
    ELSE (IF ParseTz(Head(tzs).name).ok THEN <<Head(tzs)>> ELSE <<>>)
         \o KnownZones(Tail(tzs))

\* get_times with filter_map: a zone that is not recognized is left out.
get_times_SkipUnknown(self, t) ==
    LET known == KnownZones(self.tzs)
    IN Join([i \in 1..Len(known) |->
                <<known[i].label, ":">>
                \o UnwrapOrEmpty(get_tz_time(known[i].name, "%H:%M", t))]
            \o <<get_local_time(RichFmt, t)>>,
            <<" ">>)

\* RwmStatus::get_times
get_times(self, t) ==
    Join([i \in 1..Len(self.tzs) |->
             <<self.tzs[i].label, ":">>
             \o UnwrapOrEmpty(get_tz_time(self.tzs[i].name, "%H:%M", t))]
         \o <<get_local_time(RichFmt, t)>>,
         <<" ">>)

---------------------------------------------------------------------------
(* src/src/config.rs                                                       *)

HWMON_PATH == "/sys/devices/virtual/hwmon"

HWMONS == << <<"h", "w", "m", "o", "n", "0">>, <<"h", "w", "m", "o", "n", "2">>,
             <<"h", "w", "m", "o", "n", "4">> >>

BATT_PATH == "/sys/class/power_supply"

BATTS == << <<"B", "A", "T", "0">>, <<"B", "A", "T", "1">> >>

TZS == << [label |-> "A", name |-> "America/Buenos_Aires"],
          [label |-> "U", name |-> "UTC"] >>

\* main.rs uses TZ_DEF, which this config.rs does not define: the zone of the
\* final, always-present entry of the line.
TZ_DEF == "UTC"

---------------------------------------------------------------------------
(* src/src/main.rs: the readout functions.                                 *)

\* [base, name].join("/")
Slash(base, name) == [base |-> base, name |-> name]

\* format!("{:02.0}", val / 1000.0) for val thousandths
Fmt02_0(val) ==
    LET mag == RoundHalfEven(IF val < 0 THEN 0 - val ELSE val, 1000)
    IN Pad2(val < 0, Dec(mag))

\* get_temp
main_get_temp(f, hwmon) ==
    LET r == read_file(f, hwmon, Temp1Input)
        v == ParseF64(Trim(r.data))
    IN IF ~r.ok THEN <<>>
       ELSE IF ~v.ok THEN <<>>
       ELSE Fmt02_0(v.val) \o <<"deg", "C">>

\* get_temperatures
main_get_temperatures(f) ==
    Join([i \in 1..Len(HWMONS) |->
             main_get_temp(f, Slash(HWMON_PATH, HWMONS[i]))], <<"|">>)

\* get_load_avgs
main_get_load_avgs(la) ==
    IF la.rc < 0 THEN <<>>
    ELSE Fmt2(la.avgs[1]) \o <<" ">> \o Fmt2(la.avgs[2]) \o <<" ">>
         \o Fmt2(la.avgs[3])

NotPresentText == <<"n", "o", "t", " ", "p", "r", "e", "s", "e", "n", "t">>
InvalidText == <<"i", "n", "v", "a", "l", "i", "d">>

\* match read_file(a) { Ok(c) => c, Err(_) => match read_file(b) ... }
MainReadEither(f, batt, a, b) ==
    LET r == read_file(f, batt, a)
    IN IF r.ok THEN r ELSE read_file(f, batt, b)

\* get_batt
main_get_batt(f, batt) ==
    LET p == read_file(f, batt, "present")
        full == MainReadEither(f, batt, "charge_full_design",
                               "energy_full_design")
        desired_capacity == ParseU64(Trim(full.data))
        rem == MainReadEither(f, batt, "charge_now", "energy_now")
        remaining_capacity == ParseU64(Trim(rem.data))
        st == StatusChar(read_file(f, batt, "status"))
    IN IF ~p.ok THEN <<>>
       ELSE IF ~StartsWith(p.data, <<"1">>) THEN NotPresentText
       ELSE IF ~full.ok THEN <<>>
       ELSE IF ~desired_capacity.ok THEN InvalidText
       ELSE IF ~rem.ok THEN <<>>
       ELSE IF ~remaining_capacity.ok THEN InvalidText
       ELSE FmtPercent(remaining_capacity.val, desired_capacity.val)
            \o <<"%", st>>

\* get_batteries
main_get_batteries(f) ==
    Join([i \in 1..Len(BATTS) |->
             main_get_batt(f, Slash(BATT_PATH, BATTS[i]))], <<"|">>)

\* get_tz_time
main_get_tz_time(tz_name, fmt, t) ==
    LET tz == ParseTz(tz_name)
    IN IF tz.ok THEN Format(t, tz.tz, fmt) ELSE <<>>

\* get_times
main_get_times(t) ==
    Join([i \in 1..Len(TZS) |->
             <<TZS[i].label, ":">> \o main_get_tz_time(TZS[i].name, "%H:%M", t)]
         \o <<main_get_tz_time(TZ_DEF, RichFmt, t)>>,
         <<" ">>)

\* format!("T:{} L:{} B:{} {}", temps, avgs, batts, times)
format_status(t, l, b, tm) ==
    <<"T", ":">> \o t \o <<" ", "L", ":">> \o l \o <<" ", "B", ":">> \o b
    \o <<" ">> \o tm

\* cstring: CString::new fails, and expect() panics, on an interior NUL.
cstring(s) ==
    IF \E i \in 1..Len(s) : s[i] = "NUL" THEN [ok |-> FALSE, val |-> <<>>]
    ELSE [ok |-> TRUE, val |-> s]

---------------------------------------------------------------------------
(* What the environment can hold.                                          *)

\* Text of a number followed by the newline sysfs writes.
Line(s) == s \o <<"\n">>

\* The files of a sensor: temp1_input.
TempFile(r) == [x \in {Temp1Input} |-> r]

BattFileNames == {"present", "charge_full_design", "energy_full_design",
                  "charge_now", "energy_now", "status"}

\* The files of a battery.
BattFiles(present, cfd, efd, cn, en, st) ==
    [x \in BattFileNames |->
        CASE x = "present" -> present
          [] x = "charge_full_design" -> cfd
          [] x = "energy_full_design" -> efd
          [] x = "charge_now" -> cn
          [] x = "energy_now" -> en
          [] x = "status" -> st]

Garbage == File(Line(<<"a", "b", "c">>))
Discharging ==
    File(Line(<<"D", "i", "s", "c", "h", "a", "r", "g", "i", "n", "g">>))
Num(n) == File(Line(Dec(n)))

\* What getloadavg can give: an error, or three averages (in thousandths).
LoadReads == {[rc |-> 0 - 1, avgs |-> <<0, 0, 0>>],
              [rc |-> 3, avgs |-> <<523, 1077, 12004>>]}

\* Instants of the clock: the date of the UTC day, the minute of the UTC
\* day, and the zone of the system.
Clock(week, wday, day, mon, year, min, local) ==
    [week |-> week, wday |-> wday, day |-> day, mon |-> mon, year |-> year,
     min |-> min, local |-> local]

Clock0 == Clock(44, <<"W", "e", "d">>, 4, <<"N", "o", "v">>, 2026, 728, "UTC")
Clock1 == Clock(0, <<"F", "r", "i">>, 1, <<"J", "a", "n">>, 2027, 545,
                "Asia/Tokyo")

Clocks == {Clock0, Clock1}

---------------------------------------------------------------------------
(* src/src/main.rs: main().                                                *)

CannotOpen == "rwmstatus: cannot open display."

\* What one loop iteration of main() can find under the configured sensors.
MainTempReads == {NoFile, Num(45000), Garbage}

MainTempFs ==
    [{Slash(HWMON_PATH, HWMONS[i]) : i \in 1..Len(HWMONS)} ->
        {TempFile(r) : r \in MainTempReads}]

\* ... and under the configured batteries: no directory, not present, a full
\* capacity of zero, an unparsable capacity, a sound battery.
MainBattSnaps ==
    {BattFiles(NoFile, NoFile, NoFile, NoFile, NoFile, NoFile),
     BattFiles(Num(0), Num(2), NoFile, Num(1), NoFile, Discharging),
     BattFiles(Num(1), Num(0), NoFile, Num(1), NoFile, NoFile),
     BattFiles(Num(1), Garbage, NoFile, Num(1), NoFile, Discharging),
     BattFiles(Num(1), NoFile, Num(2), NoFile, Num(1), Discharging)}

MainBattFs ==
    [{Slash(BATT_PATH, BATTS[i]) : i \in 1..Len(BATTS)} -> MainBattSnaps]

MainInit ==
    /\ pc = "start"
    /\ display = "unopened"
    /\ temps = <<>> /\ avgs = <<>> /\ batts = <<>> /\ times = <<>>
    /\ status = <<>>
    /\ stderr = <<>>
    /\ exit_code = 0 - 1
    /\ sink_calls = 0
    /\ sink_ok = TRUE
    /\ did_read = FALSE

\* XOpenDisplay returned a display.
OpenDisplayOk ==
    /\ pc = "start"
    /\ display' = "open"
    /\ pc' = "temps"
    /\ UNCHANGED <<temps, avgs, batts, times, status, stderr, exit_code,
                   sink_calls, sink_ok, did_read>>
    /\ UNCHANGED <<envVars, libVars, enumVars>>

\* OpenDisplayFail without the process::exit(1): the diagnostic is printed
\* and main() goes on into the loop with the null display.
OpenDisplayFail_NoExit ==
    /\ pc = "start"
    /\ display' = "null"
    /\ stderr' = Append(stderr, CannotOpen)
    /\ pc' = "temps"
    /\ UNCHANGED <<temps, avgs, batts, times, status, exit_code, sink_calls,
                   sink_ok, did_read>>
    /\ UNCHANGED <<envVars, libVars, enumVars>>

\* XOpenDisplay returned null: eprintln!, process::exit(1).
OpenDisplayFail ==
    /\ pc = "start"
    /\ display' = "null"
    /\ stderr' = Append(stderr, CannotOpen)
    /\ exit_code' = 1
    /\ pc' = "exited"
    /\ UNCHANGED <<temps, avgs, batts, times, status, sink_calls, sink_ok,
                   did_read>>
    /\ UNCHANGED <<envVars, libVars, enumVars>>

\* let temps = get_temperatures();
GetTemperatures ==
    /\ pc = "temps"
    /\ \E f \in MainTempFs : temps' = main_get_temperatures(f)
    /\ did_read' = TRUE
    /\ pc' = "avgs"
    /\ UNCHANGED <<display, avgs, batts, times, status, stderr, exit_code,
                   sink_calls, sink_ok>>
    /\ UNCHANGED <<envVars, libVars, enumVars>>

\* let avgs = get_load_avgs();
GetLoadAvgs ==
    /\ pc = "avgs"
    /\ \E la \in LoadReads : avgs' = main_get_load_avgs(la)
    /\ pc' = "batts"
    /\ UNCHANGED <<display, temps, batts, times, status, stderr, exit_code,
                   sink_calls, sink_ok, did_read>>
    /\ UNCHANGED <<envVars, libVars, enumVars>>

\* let batts = get_batteries();
GetBatteries ==
    /\ pc = "batts"
    /\ \E f \in MainBattFs : batts' = main_get_batteries(f)
    /\ pc' = "times"
    /\ UNCHANGED <<display, temps, avgs, times, status, stderr, exit_code,
                   sink_calls, sink_ok, did_read>>
    /\ UNCHANGED <<envVars, libVars, enumVars>>

\* let times = get_times();
GetTimes ==
    /\ pc = "times"
    /\ \E t \in Clocks : times' = main_get_times(t)
    /\ pc' = "format"
    /\ UNCHANGED <<display, temps, avgs, batts, status, stderr, exit_code,
                   sink_calls, sink_ok, did_read>>
    /\ UNCHANGED <<envVars, libVars, enumVars>>

\* let status = cstring(&format!(...)); a failed CString::new panics.
FormatStatus ==
    /\ pc = "format"
    /\ LET c == cstring(format_status(temps, avgs, batts, times))
       IN IF c.ok THEN status' = c.val /\ pc' = "store"
          ELSE status' = status /\ pc' = "panicked"
    /\ UNCHANGED <<display, temps, avgs, batts, times, stderr, exit_code,
                   sink_calls, sink_ok, did_read>>
    /\ UNCHANGED <<envVars, libVars, enumVars>>

\* StoreName treating a failed sink call like the failure at startup:
\* process::exit(1).
StoreName_ExitOnFailure ==
    /\ pc = "store"
    /\ \E reached \in BOOLEAN :
           /\ sink_ok' = reached
           /\ pc' = IF reached THEN "sleep" ELSE "exited"
           /\ exit_code' = IF reached THEN exit_code ELSE 1
    /\ sink_calls' = IF sink_calls < MaxCycles THEN sink_calls + 1
                     ELSE sink_calls
    /\ UNCHANGED <<display, temps, avgs, batts, times, status, stderr,
                   did_read>>
    /\ UNCHANGED <<envVars, libVars, enumVars>>

\* XStoreName(display, root, status); XSync(display, false): what they
\* return is not looked at.
StoreName ==
    /\ pc = "store"
    /\ \E reached \in BOOLEAN : sink_ok' = reached
    /\ sink_calls' = IF sink_calls < MaxCycles THEN sink_calls + 1
                     ELSE sink_calls
    /\ pc' = "sleep"
    /\ UNCHANGED <<display, temps, avgs, batts, times, status, stderr,
                   exit_code, did_read>>
    /\ UNCHANGED <<envVars, libVars, enumVars>>

\* thread::sleep(60 s) returns; the iteration ends, its locals are dropped,
\* and the loop starts over.
Sleep ==
    /\ pc = "sleep"
    /\ temps' = <<>> /\ avgs' = <<>> /\ batts' = <<>> /\ times' = <<>>
    /\ status' = <<>>
    /\ pc' = "temps"
    /\ UNCHANGED <<display, stderr, exit_code, sink_calls, sink_ok, did_read>>
    /\ UNCHANGED <<envVars, libVars, enumVars>>

---------------------------------------------------------------------------
(* src/src/lib.rs: the life of one RwmStatus object.                       *)

Unbuilt == [built |-> FALSE, hw_mons |-> <<>>, batts |-> <<>>, tzs |-> <<>>]

EmptyDir == [listable |-> TRUE, entries |-> {}]

\* The orders in which a directory can yield the items S.
RECURSIVE Orders(_)
Orders(S) ==
    IF S = {} THEN {<<>>}
    ELSE UNION {{<<x>> \o o : o \in Orders(S \ {x})} : x \in S}

\* The device names of the model: hwmon0, hwmon2, ... and BAT0, BAT1, ...
HwmonNames == {<<"h", "w", "m", "o", "n">> \o Dec(2 * i) : i \in 0..(MaxDev - 1)}
BattNames == {<<"B", "A", "T">> \o Dec(i) : i \in 0..(MaxDev - 1)}

\* A base directory holding some of the named devices, or not listable.
DirStates(names) ==
    {[listable |-> TRUE, entries |-> {Entry(n) : n \in S}] : S \in SUBSET names}
    \cup {[listable |-> FALSE, entries |-> {}]}

DevicePaths(d, base) == {Slash(base, e.name) : e \in d.entries}

Range(q) == {q[i] : i \in 1..Len(q)}

LibIdle ==
    /\ rs = Unbuilt
    /\ op = "none"
    /\ ret = None
    /\ read_dir_calls = 0

\* RwmStatus::new(HWMON_PATH, BATT_PATH, tz_arg); oh and ob are the orders
\* in which the two directories yield their entries.
New(oh, ob) ==
    LET h == get_paths(hwmon_dir, oh, HWMON_PATH, <<"h", "w", "m", "o", "n">>)
        b == get_paths(batt_dir, ob, BATT_PATH, <<"B", "A", "T">>)
    IN /\ ~rs.built
       /\ panicked' = (h.panic \/ b.panic)
       /\ rs' = IF h.panic \/ b.panic THEN rs
                ELSE [built |-> TRUE, hw_mons |-> h.paths, batts |-> b.paths,
                      tzs |-> tz_arg]
       /\ read_dir_calls' = read_dir_calls + 2
       /\ op' = "new"
       /\ ret' = None

\* DoGetTemperatures enumerating the sensors again before reading them.
DoGetTemperatures_Rescan(f) ==
    /\ rs.built
    /\ \E oh \in Orders(hwmon_dir.entries) :
           LET again == [rs EXCEPT !.hw_mons =
                            get_paths(hwmon_dir, oh, HWMON_PATH,
                                      <<"h", "w", "m", "o", "n">>).paths]
           IN rs' = again /\ ret' = get_temperatures(f, again)
    /\ op' = "get_temperatures"
    /\ read_dir_calls' = read_dir_calls + 1

\* self.get_temperatures() with the files f
DoGetTemperatures(f) ==
    /\ rs.built
    /\ ret' = get_temperatures(f, rs)
    /\ op' = "get_temperatures"
    /\ UNCHANGED <<rs, read_dir_calls>>

\* self.get_load_avgs() when getloadavg gives la
DoGetLoadAvgs(la) ==
    /\ rs.built
    /\ ret' = Some(rs_get_load_avgs(la))
    /\ op' = "get_load_avgs"
    /\ UNCHANGED <<rs, read_dir_calls>>

\* self.get_batteries() with the files f
DoGetBatteries(f) ==
    /\ rs.built
    /\ ret' = get_batteries(f, rs)
    /\ op' = "get_batteries"
    /\ UNCHANGED <<rs, read_dir_calls>>

\* self.get_times() at the instant t
DoGetTimes(t) ==
    /\ rs.built
    /\ ret' = Some(get_times(rs, t))
    /\ op' = "get_times"
    /\ UNCHANGED <<rs, read_dir_calls>>

\* What a call can find under the paths the object holds: per device, no
\* readable file or sound files.
LibTempFs == [Range(rs.hw_mons) -> {TempFile(NoFile), TempFile(Num(45000))}]

LibBattFs ==
    [Range(rs.batts) ->
        {BattFiles(NoFile, NoFile, NoFile, NoFile, NoFile, NoFile),
         BattFiles(Num(1), Num(2), NoFile, Num(1), NoFile, Discharging)}]

LibNew ==
    /\ \E oh \in Orders(hwmon_dir.entries), ob \in Orders(batt_dir.entries) :
           New(oh, ob)
    /\ UNCHANGED <<mainVars, envVars, listing, filtered, paths, prev_listing,
                   prev_paths, calls>>

LibGetTemperatures ==
    /\ \E f \in LibTempFs : DoGetTemperatures(f)
    /\ UNCHANGED <<mainVars, envVars, enumVars>>

LibGetLoadAvgs ==
    /\ \E la \in LoadReads : DoGetLoadAvgs(la)
    /\ UNCHANGED <<mainVars, envVars, enumVars>>

LibGetBatteries ==
    /\ \E f \in LibBattFs : DoGetBatteries(f)
    /\ UNCHANGED <<mainVars, envVars, enumVars>>

LibGetTimes ==
    /\ \E t \in Clocks : DoGetTimes(t)
    /\ UNCHANGED <<mainVars, envVars, enumVars>>

\* The environment: sensors appear and disappear, the directory becomes
\* unlistable or listable again.
HwmonDirChanges ==
    /\ \E d \in DirStates(HwmonNames) : d # hwmon_dir /\ hwmon_dir' = d
    /\ op' = "fs_change"
    /\ UNCHANGED <<mainVars, batt_dir, fs, now, tz_arg, rs, ret,
                   read_dir_calls, enumVars>>

\* ... and so do the power supplies.
BattDirChanges ==
    /\ \E d \in DirStates(BattNames) : d # batt_dir /\ batt_dir' = d
    /\ op' = "fs_change"
    /\ UNCHANGED <<mainVars, hwmon_dir, fs, now, tz_arg, rs, ret,
                   read_dir_calls, enumVars>>

EnumIdle ==
    /\ listing = <<>> /\ filtered = <<>> /\ paths = <<>>
    /\ prev_listing = <<>> /\ prev_paths = <<>>
    /\ calls = 0
    /\ panicked = FALSE

NoFs == [x \in {} |-> NoFile]

LibInit ==
    /\ MainInit
    /\ hwmon_dir \in DirStates(HwmonNames)
    /\ batt_dir \in DirStates(BattNames)
    /\ fs = NoFs
    /\ now = Clock0
    /\ tz_arg = TZS
    /\ LibIdle
    /\ EnumIdle

LibNext ==
    \/ LibNew
    \/ LibGetTemperatures \/ LibGetLoadAvgs \/ LibGetBatteries \/ LibGetTimes
    \/ HwmonDirChanges \/ BattDirChanges

---------------------------------------------------------------------------
(* The specifications.                                                     *)

\* main(): the binary.
Init ==
    /\ MainInit
    /\ hwmon_dir = EmptyDir /\ batt_dir = EmptyDir
    /\ fs = NoFs
    /\ now = Clock0
    /\ tz_arg = TZS
    /\ LibIdle
    /\ EnumIdle

Next ==
    \/ OpenDisplayOk \/ OpenDisplayFail
    \/ GetTemperatures \/ GetLoadAvgs \/ GetBatteries \/ GetTimes
    \/ FormatStatus \/ StoreName \/ Sleep

Spec == Init /\ [][Next]_vars

\* main() keeps running: a sequential program takes its next step, and the
\* sleep returns.
LiveSpec == Init /\ [][Next]_vars /\ WF_vars(Next)

\* One RwmStatus object while the directories change under it.
LibSpec == LibInit /\ [][LibNext]_vars

---------------------------------------------------------------------------
(* RwmStatus::get_paths on directories of every kind.                      *)

HwmonPrefix == <<"h", "w", "m", "o", "n">>

\* What a directory can hold: entries that match the prefix (hwmon10 sorts
\* before hwmon2), one that does not, one whose name is not UTF-8 though its
\* bytes start with the prefix, and an item the iterator fails on.
EnumItems ==
    {Entry(HwmonPrefix \o <<"0">>), Entry(HwmonPrefix \o <<"1", "0">>),
     Entry(HwmonPrefix \o <<"2">>), Entry(<<"B", "A", "T", "0">>),
     RawEntry(HwmonPrefix \o <<"xFF">>), ErrItem}

EnumDirs ==
    {[listable |-> l, entries |-> S] :
        l \in BOOLEAN,
        S \in {T \in SUBSET EnumItems : Cardinality(T) <= MaxEntries}}

\* RwmStatus::get_paths(HWMON_PATH, "hwmon"), the directory yielding its
\* entries in some order.
EnumGetPaths ==
    /\ \E order \in Orders(hwmon_dir.entries) :
           LET r == get_paths(hwmon_dir, order, HWMON_PATH, HwmonPrefix)
           IN /\ listing' = order
              /\ filtered' = r.filtered
              /\ paths' = r.paths
              /\ panicked' = (panicked \/ r.panic)
    /\ prev_listing' = listing
    /\ prev_paths' = paths
    /\ calls' = IF calls < 2 THEN calls + 1 ELSE calls
    /\ UNCHANGED <<mainVars, envVars, libVars>>

EnumInit ==
    /\ MainInit
    /\ hwmon_dir \in EnumDirs
    /\ batt_dir = EmptyDir
    /\ fs = NoFs
    /\ now = Clock0
    /\ tz_arg = TZS
    /\ LibIdle
    /\ EnumIdle

EnumNext == EnumGetPaths \/ LibNew

\* get_paths as a function of the directory.
EnumSpec == EnumInit /\ [][EnumNext]_vars

---------------------------------------------------------------------------
(* The readouts of lib.rs and of main.rs on one and the same file system.  *)

StatusFiles ==
    {NoFile, Discharging,
     File(Line(<<"F", "u", "l", "l">>)),
     File(Line(<<"C", "h", "a", "r", "g", "i", "n", "g">>)),
     File(Line(<<"U", "n", "k", "n", "o", "w", "n">>))}

\* Capacities: the small ones, one eighth steps (12.5, 37.5 percent) and a
\* charge a thousandth above the design capacity.
FullCaps == (0..MaxCap) \cup {8, 1000}
NowCaps == (0..MaxCap) \cup {1001}

\* One battery, every file on its own.
RichBattSnaps ==
    {BattFiles(p, cfd, efd, cn, en, st) :
        p \in {NoFile, Num(1), Num(0)},
        cfd \in {NoFile, Garbage} \cup {Num(c) : c \in FullCaps},
        efd \in {NoFile, Num(8)},
        cn \in {NoFile, Garbage} \cup {Num(c) : c \in NowCaps},
        en \in {NoFile, Num(3)},
        st \in StatusFiles}

\* Several batteries, each with a missing file or none.
SmallBattSnaps ==
    {BattFiles(p, cfd, NoFile, cn, NoFile, Discharging) :
        p \in {NoFile, Num(1), Num(0)},
        cfd \in {NoFile, Num(2)},
        cn \in {NoFile, Num(1)}}

TempReads ==
    {NoFile, Garbage, File(<<>>), Num(45000), Num(45500), Num(7000),
     File(Line(<<"-">> \o Dec(5000)))}

TzChoices ==
    {[label |-> "A", name |-> "America/Buenos_Aires"],
     [label |-> "U", name |-> "UTC"],
     [label |-> "X", name |-> "Mars/Olympus_Mons"]}

TzArgs == UNION {[1..n -> TzChoices] : n \in 0..MaxZones}

ListableDir(names) == [listable |-> TRUE, entries |-> {Entry(n) : n \in names}]

ReadoutInit ==
    /\ MainInit
    /\ LibIdle
    /\ EnumIdle
    /\ \/ \* batteries, some of whose files are missing
          /\ hwmon_dir = EmptyDir
          /\ \E S \in SUBSET BattNames :
                 /\ batt_dir = ListableDir(S)
                 /\ fs \in [DevicePaths(batt_dir, BATT_PATH) -> SmallBattSnaps]
          /\ now = Clock0 /\ tz_arg = TZS
       \/ \* one battery, whatever its files hold
          /\ hwmon_dir = EmptyDir
          /\ batt_dir = ListableDir({<<"B", "A", "T", "0">>})
          /\ fs \in [DevicePaths(batt_dir, BATT_PATH) -> RichBattSnaps]
          /\ now = Clock0 /\ tz_arg = TZS
       \/ \* sensors
          /\ batt_dir = EmptyDir
          /\ \E S \in SUBSET HwmonNames :
                 /\ hwmon_dir = ListableDir(S)
                 /\ fs \in [DevicePaths(hwmon_dir, HWMON_PATH) ->
                                {TempFile(r) : r \in TempReads}]
          /\ now = Clock0 /\ tz_arg = TZS
       \/ \* zones and instants
          /\ hwmon_dir = EmptyDir /\ batt_dir = EmptyDir
          /\ fs = NoFs
          /\ now \in Clocks
          /\ tz_arg \in TzArgs

RGetTemperatures ==
    /\ DoGetTemperatures(fs)
    /\ UNCHANGED <<mainVars, envVars, enumVars>>

RGetBatteries ==
    /\ DoGetBatteries(fs)
    /\ UNCHANGED <<mainVars, envVars, enumVars>>

RGetTimes ==
    /\ DoGetTimes(now)
    /\ UNCHANGED <<mainVars, envVars, enumVars>>

\* main.rs's get_temperatures() on the same files
MainGetTemperatures ==
    /\ ret' = Some(main_get_temperatures(fs))
    /\ op' = "main_get_temperatures"
    /\ UNCHANGED <<mainVars, envVars, enumVars, rs, read_dir_calls>>

\* main.rs's get_batteries() on the same files
MainGetBatteries ==
    /\ ret' = Some(main_get_batteries(fs))
    /\ op' = "main_get_batteries"
    /\ UNCHANGED <<mainVars, envVars, enumVars, rs, read_dir_calls>>

\* main.rs's get_times() at the same instant
MainGetTimes ==
    /\ ret' = Some(main_get_times(now))
    /\ op' = "main_get_times"
    /\ UNCHANGED <<mainVars, envVars, enumVars, rs, read_dir_calls>>

ReadoutNext ==
    \/ LibNew
    \/ RGetTemperatures \/ LibGetLoadAvgs \/ RGetBatteries \/ RGetTimes
    \/ MainGetTemperatures \/ MainGetBatteries \/ MainGetTimes

ReadoutSpec == ReadoutInit /\ [][ReadoutNext]_vars

---------------------------------------------------------------------------
(* The publish loop of main().                                             *)

\* The line as the specification words it: the tagged fragments that are not
\* empty, then the times, joined by one space.
TaggedLine(t, l, b, tm) ==
    Join((IF t = <<>> THEN <<>> ELSE << <<"T", ":">> \o t >>)
         \o (IF l = <<>> THEN <<>> ELSE << <<"L", ":">> \o l >>)
         \o (IF b = <<>> THEN <<>> ELSE << <<"B", ":">> \o b >>)
         \o <<tm>>,
         <<" ">>)

\* C1: the text handed to the display sink is the single-space join of
\* "T:"+temperatures, "L:"+load and "B:"+batteries, each only when it is not
\* empty, and then the times.
C1_LineOmitsEmptyCategories ==
    pc \in {"store", "sleep"} => status = TaggedLine(temps, avgs, batts, times)

LoopPcs == {"temps", "avgs", "batts", "times", "format", "store", "sleep"}

\* C4: once the display is open main() is always inside the loop, every
\* cycle reaches the sink call, the sink call is followed by the sleep and
\* the sleep by the next cycle, whatever the readouts and the sink call gave.
C4_LoopNeverEnds ==
    /\ [](display = "open" => pc \in LoopPcs)
    /\ (pc = "temps") ~> (pc = "store")
    /\ (pc = "store") ~> (pc = "sleep")
    /\ (pc = "sleep") ~> (pc = "temps")

\* A later cycle is at the sink call after a sink call that failed, with no
\* sensor readable, the load query failed, a full capacity of zero and an
\* unparsable capacity.
C4_Witness ==
    /\ pc = "store"
    /\ sink_calls >= 1
    /\ ~sink_ok
    /\ temps = <<"|", "|">>
    /\ avgs = <<>>
    /\ batts = <<"i", "n", "f", "%", "?", "|">> \o InvalidText

\* C5: a display that cannot be opened ends the process with the diagnostic
\* and exit status 1 before any readout or sink call, and nothing else ends
\* the process.
C5_OnlyStartupFailureIsFatal ==
    /\ display = "null" =>
           /\ pc = "exited"
           /\ exit_code = 1
           /\ stderr = <<CannotOpen>>
           /\ ~did_read
           /\ sink_calls = 0
    /\ (pc \notin LoopPcs \cup {"start"} \/ exit_code # 0 - 1) =>
           display = "null"

C5_Witness == pc = "exited" /\ display = "null" /\ exit_code = 1

---------------------------------------------------------------------------
(* Device enumeration.                                                     *)

\* The entries of the directory that have a name starting with "hwmon".
Matching ==
    {e \in hwmon_dir.entries :
        e.ok /\ e.utf8 /\ StartsWith(e.name, HwmonPrefix)}

ExpectedPaths ==
    IF hwmon_dir.listable THEN {Slash(HWMON_PATH, e.name) : e \in Matching}
    ELSE {}

\* C7: get_paths returns the entries whose (decodable) name starts with the
\* prefix, each once, in ascending order of path, and a second call on the
\* unchanged directory returns the same sequence whatever the order of the
\* two listings.
C7_SortedMatchingEntries ==
    calls >= 1 =>
        /\ Range(paths) = ExpectedPaths
        /\ Len(paths) = Cardinality(ExpectedPaths)
        /\ \A i \in 1..(Len(paths) - 1) : PathLess(paths[i], paths[i + 1])
        /\ calls = 2 => paths = prev_paths

\* Two calls saw the entries in different orders, the second not in
\* ascending order, and returned the same two or more paths.
C7_Witness ==
    /\ calls = 2
    /\ listing # prev_listing
    /\ Len(paths) >= 2
    /\ MapPaths(dir_filtered(listing, HwmonPrefix), HWMON_PATH) # paths
    /\ paths = prev_paths

\* C10: enumeration never panics; a directory that cannot be listed gives
\* the empty sequence; what the filter stage lets through holds no failed
\* item and no undecodable name; and new() always returns an object.
C10_EnumerationNeverAborts ==
    /\ ~panicked
    /\ calls >= 1 =>
           /\ \A i \in 1..Len(filtered) : filtered[i].ok /\ filtered[i].utf8
           /\ ~hwmon_dir.listable => paths = <<>>
    /\ op = "new" =>
           /\ rs.built
           /\ ~hwmon_dir.listable => rs.hw_mons = <<>>

\* A listing with a failed item and an undecodable name went through
\* get_paths and new(), and paths came out.
C10_Witness ==
    /\ calls >= 1
    /\ ErrItem \in Range(listing)
    /\ \E i \in 1..Len(listing) : listing[i].ok /\ ~listing[i].utf8
    /\ paths # <<>>
    /\ rs.built

---------------------------------------------------------------------------
(* The RwmStatus object.                                                   *)

\* C6: once built, no step changes the sensor list, the battery list or
\* the zone list, and none lists a directory again.
C6_ListsFixedAfterConstruction ==
    [][rs.built => (rs' = rs /\ read_dir_calls' = read_dir_calls)]_vars

\* Both directories have changed since new(), and get_temperatures() has
\* run since the last change.
C6_Witness ==
    /\ rs.built
    /\ op = "get_temperatures"
    /\ ret.some
    /\ DevicePaths(hwmon_dir, HWMON_PATH) # Range(rs.hw_mons)
    /\ DevicePaths(batt_dir, BATT_PATH) # Range(rs.batts)
    /\ read_dir_calls = 2

---------------------------------------------------------------------------
(* The aggregated readouts.                                                *)

\* The files of the device p alone.
Only(f, p) == [x \in {p} \cap DOMAIN f |-> f[x]]

MainSensors == [i \in 1..Len(HWMONS) |-> Slash(HWMON_PATH, HWMONS[i])]
MainBatteries == [i \in 1..Len(BATTS) |-> Slash(BATT_PATH, BATTS[i])]

\* The temperature file of the sensor cannot be read.
SensorUnreadable(f, p) == ~read_to_string(f, p, Temp1Input).ok

Readable(f, b, a, alt) ==
    read_to_string(f, b, a).ok \/ read_to_string(f, b, alt).ok

\* The text of the first of the two files that can be read.
FirstReadable(f, b, a, alt) ==
    IF read_to_string(f, b, a).ok THEN read_to_string(f, b, a).data
    ELSE read_to_string(f, b, alt).data

SaysPresent(f, b) ==
    /\ read_to_string(f, b, "present").ok
    /\ StartsWith(read_to_string(f, b, "present").data, <<"1">>)

SaysAbsent(f, b) ==
    /\ read_to_string(f, b, "present").ok
    /\ ~StartsWith(read_to_string(f, b, "present").data, <<"1">>)

FullParses(f, b) ==
    /\ Readable(f, b, "charge_full_design", "energy_full_design")
    /\ ParseU64(Trim(FirstReadable(f, b, "charge_full_design",
                                    "energy_full_design"))).ok

NowParses(f, b) ==
    /\ Readable(f, b, "charge_now", "energy_now")
    /\ ParseU64(Trim(FirstReadable(f, b, "charge_now", "energy_now"))).ok

\* The readout of the battery comes to a file it cannot read: the presence
\* file, or, of a present battery, both full-capacity files or (the full
\* capacity read and parsed) both current-capacity files.
BattUnreadable(f, b) ==
    \/ ~read_to_string(f, b, "present").ok
    \/ /\ SaysPresent(f, b)
       /\ \/ ~Readable(f, b, "charge_full_design", "energy_full_design")
          \/ /\ FullParses(f, b)
             /\ ~Readable(f, b, "charge_now", "energy_now")

\* C2: with n >= 1 devices the category output has n '|'-delimited fields in
\* the order of the devices; the field of a device whose files cannot be
\* read is empty, and every other field is what the readout gives for that
\* device with no other device around.
C2_PartialFailureIsolation ==
    /\ (op = "get_temperatures" /\ rs.hw_mons # <<>>) =>
           LET fields == Split(ret.text, "|")
           IN /\ ret.some
              /\ Len(fields) = Len(rs.hw_mons)
              /\ \A i \in 1..Len(rs.hw_mons) :
                     LET p == rs.hw_mons[i]
                     IN fields[i] =
                            IF SensorUnreadable(fs, p) THEN <<>>
                            ELSE get_temperatures(
                                     Only(fs, p),
                                     [rs EXCEPT !.hw_mons = <<p>>]).text
    /\ (op = "get_batteries" /\ rs.batts # <<>>) =>
           LET fields == Split(ret.text, "|")
           IN /\ ret.some
              /\ Len(fields) = Len(rs.batts)
              /\ \A i \in 1..Len(rs.batts) :
                     LET b == rs.batts[i]
                     IN fields[i] =
                            IF BattUnreadable(fs, b) THEN <<>>
                            ELSE get_batteries(
                                     Only(fs, b),
                                     [rs EXCEPT !.batts = <<b>>]).text
    /\ op = "main_get_temperatures" =>
           LET fields == Split(ret.text, "|")
           IN /\ Len(fields) = Len(HWMONS)
              /\ \A i \in 1..Len(HWMONS) :
                     LET p == MainSensors[i]
                     IN fields[i] =
                            IF SensorUnreadable(fs, p) THEN <<>>
                            ELSE main_get_temp(Only(fs, p), p)
    /\ op = "main_get_batteries" =>
           LET fields == Split(ret.text, "|")
           IN /\ Len(fields) = Len(BATTS)
              /\ \A i \in 1..Len(BATTS) :
                     LET b == MainBatteries[i]
                     IN fields[i] =
                            IF BattUnreadable(fs, b) THEN <<>>
                            ELSE main_get_batt(Only(fs, b), b)

\* get_temperatures() ran on two sensors, the first unreadable and the
\* second reading 45 degrees.
C2_Witness ==
    /\ op = "get_temperatures"
    /\ Len(rs.hw_mons) = 2
    /\ SensorUnreadable(fs, rs.hw_mons[1])
    /\ ret = Some(<<"|", "4", "5", "deg", "C">>)

\* C3: the field of a battery whose presence file can be read and does not
\* start with '1' is exactly "not present", whatever its other files hold.
C3_NotPresentFragment ==
    /\ (op = "get_batteries" /\ rs.batts # <<>>) =>
           \A i \in 1..Len(rs.batts) :
               SaysAbsent(fs, rs.batts[i]) =>
                   /\ Len(Split(ret.text, "|")) = Len(rs.batts)
                   /\ Split(ret.text, "|")[i] = NotPresentText
    /\ op = "main_get_batteries" =>
           \A i \in 1..Len(BATTS) :
               SaysAbsent(fs, MainBatteries[i]) =>
                   /\ Len(Split(ret.text, "|")) = Len(BATTS)
                   /\ Split(ret.text, "|")[i] = NotPresentText

\* The status character the specification gives for a status file.
SpecStatusChar(r) ==
    IF ~r.ok THEN "?"
    ELSE IF Trim(r.data) = <<"F", "u", "l", "l">> THEN "F"
    ELSE IF Trim(r.data)
            = <<"D", "i", "s", "c", "h", "a", "r", "g", "i", "n", "g">> THEN "-"
    ELSE IF Trim(r.data) = <<"C", "h", "a", "r", "g", "i", "n", "g">> THEN "+"
    ELSE "?"

Abs(x) == IF x < 0 THEN 0 - x ELSE x

\* c > f gives p > 100
AboveAsClaimed(pct, cur, full) == cur > full => pct > 100

\* c > f gives p >= 100, and p > 100 once c/f*100 is above 100.5
AboveRounded(pct, cur, full) ==
    /\ cur > full => pct >= 100
    /\ 200 * cur > 201 * full => pct > 100

\* The field is "<p>%<s>", p an integer nearest to c/f*100 and s the status
\* character of the battery; of charges above the full capacity it holds
\* what the claim says as it stands (claimed) or as rounding allows.
PercentField(field, f, b, claimed) ==
    LET cur == ParseU64(Trim(FirstReadable(f, b, "charge_now",
                                           "energy_now"))).val
        full == ParseU64(Trim(FirstReadable(f, b, "charge_full_design",
                                            "energy_full_design"))).val
        digits == SubSeq(field, 1, Len(field) - 2)
        pct == DigitsVal(digits)
    IN /\ Len(field) >= 3
       /\ AllDigits(digits)
       /\ digits = Dec(pct)
       /\ field[Len(field) - 1] = "%"
       /\ field[Len(field)] = SpecStatusChar(read_to_string(f, b, "status"))
       /\ 2 * Abs(pct * full - 100 * cur) <= full
       /\ cur = full => pct = 100
       /\ IF claimed THEN AboveAsClaimed(pct, cur, full)
          ELSE AboveRounded(pct, cur, full)

\* The battery is present and both capacities parse, the full one above 0.
SoundBattery(f, b) ==
    /\ SaysPresent(f, b)
    /\ FullParses(f, b)
    /\ NowParses(f, b)
    /\ ParseU64(Trim(FirstReadable(f, b, "charge_full_design",
                                    "energy_full_design"))).val > 0

PercentFields(claimed) ==
    /\ (op = "get_batteries" /\ rs.batts # <<>>) =>
           \A i \in 1..Len(rs.batts) :
               SoundBattery(fs, rs.batts[i]) =>
                   /\ Len(Split(ret.text, "|")) = Len(rs.batts)
                   /\ PercentField(Split(ret.text, "|")[i], fs, rs.batts[i],
                                   claimed)
    /\ op = "main_get_batteries" =>
           \A i \in 1..Len(BATTS) :
               SoundBattery(fs, MainBatteries[i]) =>
                   /\ Len(Split(ret.text, "|")) = Len(BATTS)
                   /\ PercentField(Split(ret.text, "|")[i], fs,
                                   MainBatteries[i], claimed)

\* C8 as claimed: the fragment of a present battery with parsable c and
\* f > 0 is "<p>%<s>" with p = round(c/f*100), c > f gives p > 100, and
\* c = f gives "100%".
C8_PercentAsClaimed == PercentFields(TRUE)

\* C8: the fragment of a present battery with parsable c and f > 0 is
\* "<p>%<s>" with p an integer nearest to c/f*100 and s the status
\* character; p is not clamped: c > f gives p >= 100, and p > 100 once
\* c/f*100 is above 100.5; c = f gives "100%".
C8_PercentRounded == PercentFields(FALSE)

\* get_batteries() ran on a battery charged to 3 of a design capacity of 2.
C8_Witness ==
    /\ op = "get_batteries"
    /\ Len(rs.batts) = 1
    /\ SoundBattery(fs, rs.batts[1])
    /\ ret = Some(<<"1", "5", "0", "%", "-">>)

\* The entries of a times output: the fields between spaces.
TimeTokens == Split(ret.text, " ")

\* Number of space-delimited fields of the final entry:
\* KW, week, weekday, day, month, time, zone, year.
RichFields == 8

\* C9: the times output is one entry per configured zone, in order, each
\* the label and a colon followed by nothing for a zone that is not
\* recognized and by what the zone gives on its own otherwise, and then one
\* final local-time entry that is never empty.  Of main.rs, whose final
\* entry is the zone TZ_DEF that config.rs does not give, the entries of the
\* configured zones are checked.
C9_TimesPerZone ==
    /\ op = "get_times" =>
           LET n == Len(rs.tzs)
               final == Join(SubSeq(TimeTokens, n + 1, Len(TimeTokens)), <<" ">>)
           IN /\ Len(TimeTokens) = n + RichFields
              /\ \A i \in 1..n :
                     LET z == rs.tzs[i]
                         alone == Split(get_times([rs EXCEPT !.tzs = <<z>>],
                                                  now), " ")[1]
                     IN /\ StartsWith(TimeTokens[i], <<z.label, ":">>)
                        /\ z.name \notin DOMAIN ZoneTable =>
                               TimeTokens[i] = <<z.label, ":">>
                        /\ z.name \in DOMAIN ZoneTable =>
                               /\ TimeTokens[i] = alone
                               /\ Len(TimeTokens[i]) = 7
              /\ final # <<>>
              /\ TimeTokens[n + 1] = <<"K", "W">>
              /\ final = get_times([rs EXCEPT !.tzs = <<>>], now)
    /\ op = "main_get_times" =>
           /\ Len(TimeTokens) >= Len(TZS)
           /\ \A i \in 1..Len(TZS) :
                  /\ StartsWith(TimeTokens[i], <<TZS[i].label, ":">>)
                  /\ Len(TimeTokens[i]) = 7

\* get_times() ran with an unrecognized zone followed by a recognized one.
C9_Witness ==
    /\ op = "get_times"
    /\ Len(rs.tzs) = 2
    /\ rs.tzs[1].name \notin DOMAIN ZoneTable
    /\ rs.tzs[2].name \in DOMAIN ZoneTable
    /\ TimeTokens[1] = <<"X", ":">>
    /\ TimeTokens[2] = <<"A", ":", "0", "9", ":", "0", "8">>

=============================================================================
